---------------------------- MODULE Spec2Model ----------------------------
(***************************************************************************)
(* polybar-agenda: the `calendar` module of src/main.rs.                   *)
(*                                                                         *)
(* Time is counted in ticks, TicksPerSecond to the second, so that spans   *)
(* shorter than a second exist (chrono's Duration and NaiveDateTime carry  *)
(* sub-second precision).  Tick 0 is local midnight of day 0.  The local   *)
(* zone is a fixed offset from UTC (localOffset).                          *)
(***************************************************************************)
EXTENDS Integers, Sequences, FiniteSets, TLC

VARIABLES
    calendar,     \* the parsed calendar: a sequence of components
    mode,         \* DisplayMode
    now,          \* the `now` parameter, as local wall-clock ticks
    clock,        \* what Local::now() returns inside extract_event (line 87)
    localOffset,  \* local zone's offset from UTC, in ticks
    pc,           \* where the run is
    flattened,    \* process_calendar: occurrences after .flatten()
    sorted,       \* ... after .sorted_unstable_by_key(start)
    kept,         \* ... after .filter(relevance)
    selected,     \* ... after .take(2)
    output,       \* the string process_calendar returns
    call,         \* a direct call of one function (as tests.rs makes them)
    ret           \* what that call returned

vars == <<calendar, mode, now, clock, localOffset, pc, flattened, sorted,
          kept, selected, output, call, ret>>

---------------------------------------------------------------------------
(* Units *)

TicksPerSecond == 2
SecsPerMinute == 60
MinsPerHour == 60
HoursPerDay == 24

Second == TicksPerSecond
Minute == SecsPerMinute * Second
Hour == MinsPerHour * Minute
Day == HoursPerDay * Hour

MAX_EVENTS == 100
HOURS_AHEAD == 32
HOURS_BEHIND == 32
RELEVANCE_HOURS == 24

\* Integer division truncating toward zero, as Rust's i64 division does.
TruncDiv(a, b) == IF a >= 0 THEN a \div b ELSE -((-a) \div b)

\* chrono::Duration::num_seconds / num_minutes / num_hours: whole units,
\* truncated toward zero.
num_seconds(d) == TruncDiv(d, Second)
num_minutes(d) == TruncDiv(num_seconds(d), SecsPerMinute)
num_hours(d) == TruncDiv(num_seconds(d), SecsPerMinute * MinsPerHour)

\* chrono::Duration::abs
Abs(d) == IF d < 0 THEN -d ELSE d

\* now::DateTimeNow::end_of_day: the last representable instant of t's day.
end_of_day(t) == (t \div Day) * Day + Day - 1

\* Local.from_utc_datetime(..).naive_local() and with_timezone(UTC).
FromUtc(u, off) == u + off
ToUtc(t, off) == t - off

---------------------------------------------------------------------------
(* Calendar values *)

Some(v) == [some |-> TRUE, v |-> v]

\* icalendar::DatePerhapsTime (DateTime(CalendarDateTime) | Date)
Floating(t) == [kind |-> "Floating", t |-> t, tzid |-> ""]
Utc(t) == [kind |-> "Utc", t |-> t, tzid |-> ""]
WithTimezone(t, tzid) == [kind |-> "WithTimezone", t |-> t, tzid |-> tzid]
Date(d) == [kind |-> "Date", t |-> d, tzid |-> ""]

NoTime == [some |-> FALSE, v |-> Floating(0)]
NoText == [some |-> FALSE, v |-> ""]

\* A calendar component: its type and the properties the module reads.
Component(ctype, summary, start, end, rrule) ==
    [ctype |-> ctype, summary |-> summary, start |-> start, end |-> end,
     rrule |-> rrule]

AgendaEntry(name, start, duration) ==
    [name |-> name, start |-> start, duration |-> duration]

Ok(v) == [ok |-> TRUE, err |-> "", v |-> v]
Err(e, v) == [ok |-> FALSE, err |-> e, v |-> v]

---------------------------------------------------------------------------
(* Time Normalizer *)

\* chrono_tz: the zones Tz::from_str knows, and the local times a zone has
\* no single offset for (tick Day is 2023-03-12T00:00, the day New York
\* skips 02:00-03:00).
KnownZones == {"America/New_York"}
NoSingleOffset(tzid, t) ==
    tzid = "America/New_York" /\ Day + 2 * Hour <= t /\ t < Day + 3 * Hour

as_naive(dt, off) ==
    CASE dt.kind = "Floating" -> Ok(dt.t)
      [] dt.kind = "Utc" -> Ok(FromUtc(dt.t, off))
      [] OTHER ->
            IF dt.tzid \notin KnownZones THEN Err("InvalidTimezone", 0)
            ELSE IF NoSingleOffset(dt.tzid, dt.t) THEN Err("InvalidTimezone", 0)
            ELSE Ok(dt.t)

---------------------------------------------------------------------------
(* Recurrence rules *)

\* RRuleSet::from_str on the RRULE line: the rules the calendars below use.
\* interval in ticks; count = 0 stands for a rule with no COUNT.
ParseRRule(s) ==
    CASE s = "FREQ=DAILY;COUNT=3" -> Ok([interval |-> Day, count |-> 3])
      [] s = "FREQ=HOURLY;COUNT=40" -> Ok([interval |-> Hour, count |-> 40])
      [] s = "FREQ=HOURLY;INTERVAL=32;COUNT=3" ->
            Ok([interval |-> 32 * Hour, count |-> 3])
      [] s = "FREQ=MINUTELY" -> Ok([interval |-> Minute, count |-> 0])
      [] s = "FREQ=SECONDLY;COUNT=150" -> Ok([interval |-> Second, count |-> 150])
      [] OTHER -> Err("RRuleParseError", [interval |-> 0, count |-> 0])

\* RRuleSet .after(a).before(b).all(limit): the set's instants
\* first + k * interval (k < count when the rule has a COUNT), in ascending
\* order; `all` collects those in [a, b], both ends included, and stops
\* once it holds `limit` of them.
Min(a, b) == IF a < b THEN a ELSE b

\* Variant: the lower bound of the window is not applied.
RRuleAll_no_after(rule, first, after, before, limit) ==
    LET klast == (before - first) \div rule.interval
        kmax == IF rule.count # 0 THEN Min(klast, rule.count - 1) ELSE klast
        n == IF kmax < 0 THEN 0 ELSE Min(limit, kmax + 1)
    IN  [i \in 1..n |-> first + (i - 1) * rule.interval]

RRuleAll(rule, first, after, before, limit) ==
    LET kmin == IF after <= first THEN 0
                ELSE (after - first + rule.interval - 1) \div rule.interval
        klast == (before - first) \div rule.interval
        kmax == IF rule.count # 0 THEN Min(klast, rule.count - 1) ELSE klast
        n == IF kmax < kmin THEN 0 ELSE Min(limit, kmax - kmin + 1)
    IN  [i \in 1..n |-> first + (kmin + i - 1) * rule.interval]

MapEntries(name, duration, dates, off) ==
    [i \in 1..Len(dates) |-> AgendaEntry(name, FromUtc(dates[i], off), duration)]

---------------------------------------------------------------------------
(* Occurrence Extractor *)

\* extract_event(event, sod, eod); clk is Local::now() at line 87.
\* Variant: looks for the end before it normalises the start.
extract_event_end_first(event, sod, eod, clk, off) ==
    IF ~event.start.some THEN Err("MissingStartTime", <<>>)
    ELSE IF ~event.end.some THEN Err("MissingEndTime", <<>>)
    ELSE
    LET start == event.start.v
        ns == IF start.kind = "Date" THEN Ok(start.t * Day)
              ELSE as_naive(start, off)
        end_time == event.end.v
        ne == IF end_time.kind = "Date" THEN Ok(end_of_day(clk))
              ELSE as_naive(end_time, off)
    IN
    IF ~ns.ok THEN Err(ns.err, <<>>)
    ELSE IF ~ne.ok THEN Err(ne.err, <<>>)
    ELSE
    LET duration == ne.v - ns.v
        name == IF event.summary.some THEN event.summary.v ELSE ""
        rrule == ParseRRule(event.rrule.v)
    IN
    IF ~event.rrule.some THEN Ok(<<AgendaEntry(name, ns.v, duration)>>)
    ELSE IF ~rrule.ok THEN Err(rrule.err, <<>>)
    ELSE Ok(MapEntries(name, duration,
                       RRuleAll(rrule.v, ToUtc(ns.v, off),
                                ToUtc(sod, off), ToUtc(eod, off), MAX_EVENTS),
                       off))

extract_event(event, sod, eod, clk, off) ==
    IF ~event.start.some THEN Err("MissingStartTime", <<>>)
    ELSE
    LET start == event.start.v
        ns == IF start.kind = "Date" THEN Ok(start.t * Day)
              ELSE as_naive(start, off)
    IN
    IF ~ns.ok THEN Err(ns.err, <<>>)
    ELSE IF ~event.end.some THEN Err("MissingEndTime", <<>>)
    ELSE
    LET naive_start == ns.v
        end_time == event.end.v
        ne == IF end_time.kind = "Date" THEN Ok(end_of_day(clk))
              ELSE as_naive(end_time, off)
    IN
    IF ~ne.ok THEN Err(ne.err, <<>>)
    ELSE
    LET duration == ne.v - naive_start
        name == IF event.summary.some THEN event.summary.v ELSE ""
    IN
    IF ~event.rrule.some THEN Ok(<<AgendaEntry(name, naive_start, duration)>>)
    ELSE
    LET rrule == ParseRRule(event.rrule.v)
    IN
    IF ~rrule.ok THEN Err(rrule.err, <<>>)
    ELSE Ok(MapEntries(name, duration,
                       RRuleAll(rrule.v, ToUtc(naive_start, off),
                                ToUtc(sod, off), ToUtc(eod, off), MAX_EVENTS),
                       off))

---------------------------------------------------------------------------
(* Agenda Formatter *)

\* Variant: tries the minutes before the hours.
format_duration_minutes_first(d) ==
    IF num_minutes(d) # 0 THEN ToString(num_minutes(d)) \o "min"
    ELSE IF num_hours(d) # 0 THEN ToString(num_hours(d)) \o "h"
    ELSE ToString(num_seconds(d)) \o "s"

format_duration(d) ==
    IF num_hours(d) # 0 THEN ToString(num_hours(d)) \o "h"
    ELSE IF num_minutes(d) # 0 THEN ToString(num_minutes(d)) \o "min"
    ELSE ToString(num_seconds(d)) \o "s"

\* "%02d"
Pad2(n) == IF n < 10 THEN "0" \o ToString(n) ELSE ToString(n)

\* NaiveDateTime::format("%H:%M")
FormatHM(t) == Pad2((t % Day) \div Hour) \o ":" \o Pad2((t % Hour) \div Minute)

format_agenda_entry_compact(entry, when) ==
    LET time_until == entry.start - when
        time_remaining == (entry.start + entry.duration) - when
    IN  IF num_minutes(time_until) > 0 \/ num_hours(time_until) > 0
        THEN entry.name \o " · " \o format_duration(time_until)
        ELSE entry.name \o " · " \o format_duration(Abs(time_until))
                 \o "/" \o format_duration(time_remaining)

\* Variant: "ago" from start = when on.
format_agenda_entry_default_from_zero(entry, when) ==
    LET start_time == FormatHM(entry.start)
        time_until == when - entry.start
    IN  IF time_until >= 0
        THEN entry.name \o " " \o start_time \o " ("
                 \o format_duration(time_until) \o " ago)"
        ELSE entry.name \o " " \o start_time \o " (in "
                 \o format_duration(Abs(time_until)) \o ")"

format_agenda_entry_default(entry, when) ==
    LET start_time == FormatHM(entry.start)
        time_until == when - entry.start
    IN  IF num_seconds(time_until) > 0
        THEN entry.name \o " " \o start_time \o " ("
                 \o format_duration(time_until) \o " ago)"
        ELSE entry.name \o " " \o start_time \o " (in "
                 \o format_duration(Abs(time_until)) \o ")"

format_agenda_entry(m, entry, when) ==
    IF m = "Default" THEN format_agenda_entry_default(entry, when)
    ELSE format_agenda_entry_compact(entry, when)

---------------------------------------------------------------------------
(* Agenda Selector *)

\* The components process_calendar hands to extract_event (Event, Todo and
\* Venue), each result through .ok(), then .flatten().
\* Variant: the first failing component ends the collection.
RECURSIVE Flatten_until_error(_, _, _, _, _)
Flatten_until_error(cal, sod, eod, clk, off) ==
    IF cal = <<>> THEN <<>>
    ELSE LET element == Head(cal)
             r == extract_event(element, sod, eod, clk, off)
         IN  IF element.ctype \notin {"Event", "Todo", "Venue"}
             THEN Flatten_until_error(Tail(cal), sod, eod, clk, off)
             ELSE IF ~r.ok THEN <<>>
             ELSE r.v \o Flatten_until_error(Tail(cal), sod, eod, clk, off)

RECURSIVE Flatten(_, _, _, _, _)
Flatten(cal, sod, eod, clk, off) ==
    IF cal = <<>> THEN <<>>
    ELSE LET element == Head(cal)
             r == extract_event(element, sod, eod, clk, off)
             items == IF element.ctype \in {"Event", "Todo", "Venue"} /\ r.ok
                      THEN r.v ELSE <<>>
         IN  items \o Flatten(Tail(cal), sod, eod, clk, off)

RemoveAt(s, i) == SubSeq(s, 1, i - 1) \o SubSeq(s, i + 1, Len(s))

MinStart(s) == CHOOSE m \in {s[i].start : i \in DOMAIN s} :
                   \A j \in DOMAIN s : m <= s[j].start

\* itertools sorted_unstable_by_key(|item| item.start): slice::sort_unstable
\* orders by the key and promises nothing about equal keys, so every
\* ascending arrangement of the items is a possible result.
\* Variant: no sort at all.
unsorted(s) == {s}

RECURSIVE sorted_unstable_by_key(_)
sorted_unstable_by_key(s) ==
    IF s = <<>> THEN {<<>>}
    ELSE UNION { { <<s[i]>> \o p : p \in sorted_unstable_by_key(RemoveAt(s, i)) } :
                 i \in {j \in DOMAIN s : s[j].start = MinStart(s)} }

\* Variant: an occurrence ending exactly now is dropped.
Relevant_strictly_running(item, current_time) ==
    /\ (item.start + item.duration) > current_time
    /\ num_hours(current_time - item.start) < RELEVANCE_HOURS

\* The closure of .filter(..) at lines 200-203.
Relevant(item, current_time) ==
    /\ (item.start + item.duration) >= current_time
    /\ num_hours(current_time - item.start) < RELEVANCE_HOURS

RECURSIVE Filter(_, _)
Filter(s, current_time) ==
    IF s = <<>> THEN <<>>
    ELSE IF Relevant(Head(s), current_time)
         THEN <<Head(s)>> \o Filter(Tail(s), current_time)
         ELSE Filter(Tail(s), current_time)

\* Variant: one more than asked for.
Take_one_more(s, n) == SubSeq(s, 1, IF Len(s) < n + 1 THEN Len(s) ELSE n + 1)

Take(s, n) == SubSeq(s, 1, IF Len(s) < n THEN Len(s) ELSE n)

\* .map(format_agenda_entry).intersperse(" » ").collect::<String>()
RECURSIVE Render(_, _, _)
Render(m, items, current_time) ==
    IF items = <<>> THEN ""
    ELSE IF Len(items) = 1 THEN format_agenda_entry(m, items[1], current_time)
    ELSE format_agenda_entry(m, items[1], current_time) \o " » "
             \o Render(m, Tail(items), current_time)

\* process_calendar(calendar, mode, now): every run the sort allows, with
\* the intermediate sequences of the iterator chain.
process_calendar(cal, m, n, clk, off) ==
    LET current_time == n
        extract_start == n - HOURS_BEHIND * Hour
        extract_end == n + HOURS_AHEAD * Hour
        flat == Flatten(cal, extract_start, extract_end, clk, off)
    IN  { [flattened |-> flat,
           sorted |-> s,
           kept |-> Filter(s, current_time),
           selected |-> Take(Filter(s, current_time), 2),
           output |-> Render(m, Take(Filter(s, current_time), 2), current_time)] :
          s \in sorted_unstable_by_key(flat) }

---------------------------------------------------------------------------
(* Inputs *)

MaxEntries == 3

\* 14:00 local on day 1, the hour the format tests use
T1400 == Day + 14 * Hour

Text(s) == Some(s)

Event1 == Component("Event", Text("Event 1"),
                    Some(Floating(T1400 + Hour)), Some(Floating(T1400 + 3 * Hour)), NoText)
TieA == Component("Todo", Text("Tie A"),
                  Some(Floating(T1400 + Hour)), Some(Floating(T1400 + 2 * Hour)), NoText)
TieB == Component("Venue", Text("Tie B"),
                  Some(Utc(T1400)), Some(Utc(T1400 + 2 * Hour)), NoText)
Ending == Component("Event", Text("Ending"),
                    Some(Floating(T1400 - Hour)), Some(Floating(T1400)), NoText)
Stale == Component("Event", Text("Stale"),
                   Some(Floating(T1400 - Day + 1)), Some(Floating(T1400 + 6 * Hour)), NoText)
NoStart == Component("Event", Text("No Start"),
                     NoTime, Some(Floating(T1400 + Hour)), NoText)
NoEnd == Component("Event", Text("No End Event"),
                   Some(Floating(T1400)), NoTime, NoText)
BadZone == Component("Event", Text("Bad Zone"),
                     Some(WithTimezone(T1400, "Invalid/Timezone")),
                     Some(Floating(T1400 + Hour)), NoText)
BadRule == Component("Event", Text("Bad Rule"),
                     Some(Floating(T1400)), Some(Floating(T1400 + Hour)),
                     Text("FREQ=BOGUS"))
Recurring == Component("Event", Text("Recurring Event"),
                       Some(Floating(T1400)), Some(Floating(T1400 + Hour)),
                       Text("FREQ=DAILY;COUNT=3"))
AllDay == Component("Event", NoText, Some(Date(1)), Some(Date(2)), NoText)
Alarm == Component("Other", Text("Alarm"),
                   Some(Floating(T1400)), Some(Floating(T1400 + Hour)), NoText)

CalendarPool == {Event1, TieA, TieB, Ending, Stale, NoStart, NoEnd, BadZone,
                 BadRule, Recurring, AllDay, Alarm}

Calendars == UNION { [1..n -> CalendarPool] : n \in 0..MaxEntries }

Modes == {"Default", "Compact"}

---------------------------------------------------------------------------
(* The run: main has parsed the file and read the clock *)

Init ==
    /\ calendar \in Calendars
    /\ mode \in Modes
    /\ now \in {T1400, T1400 + 1}
    /\ clock = now
    /\ localOffset = Hour
    /\ pc = "main"
    /\ flattened = <<>>
    /\ sorted = <<>>
    /\ kept = <<>>
    /\ selected = <<>>
    /\ output = ""
    /\ call = [fn |-> "none"]
    /\ ret = [fn |-> "none"]

ProcessCalendar ==
    /\ pc = "main"
    /\ \E run \in process_calendar(calendar, mode, now, clock, localOffset) :
        /\ flattened' = run.flattened
        /\ sorted' = run.sorted
        /\ kept' = run.kept
        /\ selected' = run.selected
        /\ output' = run.output
    /\ pc' = "done"
    /\ UNCHANGED <<calendar, mode, now, clock, localOffset, call, ret>>

Next == ProcessCalendar

Spec == Init /\ [][Next]_vars

---------------------------------------------------------------------------
(* extract_event called on one component, as test_extract_event does *)

NewYork == "America/New_York"

\* (start, end) of the components: absent values, each form of date-time,
\* date-only values, an unknown zone, a local time New York skips, and
\* starts on and next to the edge of the window.
TimePairs ==
    { <<NoTime, NoTime>>,
      <<NoTime, Some(Floating(T1400 + Hour))>>,
      <<Some(Floating(T1400)), NoTime>>,
      <<Some(Utc(T1400)), NoTime>>,
      <<Some(Date(1)), NoTime>>,
      <<Some(WithTimezone(T1400, NewYork)), NoTime>>,
      <<Some(WithTimezone(T1400, "Invalid/Timezone")), NoTime>>,
      <<Some(WithTimezone(Day + 2 * Hour + 30 * Minute, NewYork)), NoTime>>,
      <<Some(Floating(T1400)), Some(Floating(T1400 + Hour))>>,
      <<Some(Floating(T1400)), Some(Floating(T1400))>>,
      <<Some(Utc(T1400)), Some(Utc(T1400 + 2 * Hour))>>,
      <<Some(WithTimezone(T1400, NewYork)), Some(WithTimezone(T1400 + Hour, NewYork))>>,
      <<Some(WithTimezone(T1400, NewYork)),
        Some(WithTimezone(T1400 + Hour, "Invalid/Timezone"))>>,
      <<Some(Floating(T1400 - HOURS_BEHIND * Hour)),
        Some(Floating(T1400 - HOURS_BEHIND * Hour + 90 * Minute))>>,
      <<Some(Floating(T1400 + HOURS_AHEAD * Hour - Minute)),
        Some(Floating(T1400 + HOURS_AHEAD * Hour))>>,
      <<Some(Date(0)), Some(Date(1))>>,
      <<Some(Date(1)), Some(Date(2))>>,
      <<Some(Date(2)), Some(Date(3))>> }

Rules == { NoText, Text("FREQ=DAILY;COUNT=3"), Text("FREQ=HOURLY;COUNT=40"),
           Text("FREQ=HOURLY;INTERVAL=32;COUNT=3"), Text("FREQ=MINUTELY"),
           Text("FREQ=SECONDLY;COUNT=150"), Text("FREQ=BOGUS") }

Summaries == { Text("Single Event"), NoText }

ExtractPool ==
    { Component("Event", sm, p[1], p[2], r) :
        sm \in Summaries, p \in TimePairs, r \in Rules }

Idle ==
    /\ calendar = <<>>
    /\ mode = "Default"
    /\ flattened = <<>>
    /\ sorted = <<>>
    /\ kept = <<>>
    /\ selected = <<>>
    /\ output = ""

InitExtract ==
    /\ Idle
    /\ now \in {T1400, T1400 + 1}
    /\ clock \in {now, now + 10 * Hour}
    /\ localOffset \in {0, Hour, -5 * Hour}
    /\ pc = "call"
    /\ call \in { [fn |-> "extract_event", event |-> e] : e \in ExtractPool }
    /\ ret = [fn |-> "none"]

CallExtractEvent ==
    /\ pc = "call"
    /\ call.fn = "extract_event"
    /\ ret' = extract_event(call.event, now - HOURS_BEHIND * Hour,
                            now + HOURS_AHEAD * Hour, clock, localOffset)
    /\ pc' = "returned"
    /\ UNCHANGED <<calendar, mode, now, clock, localOffset, flattened, sorted,
                   kept, selected, output, call>>

NextExtract == CallExtractEvent

SpecExtract == InitExtract /\ [][NextExtract]_vars

---------------------------------------------------------------------------
(* The formatter called on its own, as the format tests do *)

Durations ==
    (0 .. 3 * Second) \cup
    { 45 * Second, Minute - 1, Minute, Minute + 1, 30 * Minute, 45 * Minute,
      Hour - 1, Hour, Hour + 1, Hour + 15 * Minute, Hour + 30 * Minute,
      2 * Hour - 1, 2 * Hour, Day - 1, Day, Day + Hour, 100 * Hour,
      -1, -Second, -45 * Minute, -Hour - 30 * Minute }

\* starts of the formatted occurrence, relative to `when`
StartOffsets ==
    { -Hour - 30 * Minute, -Hour, -45 * Minute, -30 * Minute, -Minute, -Second,
      -1, 0, 1, Second, 59 * Second + 1, Minute, 30 * Minute, 45 * Minute,
      Hour, 25 * Hour }

FormatEntries ==
    { AgendaEntry(n, T1400 + o, d) :
        n \in {"Future Event", "Ongoing Event"}, o \in StartOffsets,
        d \in {0, Hour, 2 * Hour} }

InitFormat ==
    /\ Idle
    /\ now = T1400
    /\ clock = now
    /\ localOffset = 0
    /\ pc = "call"
    /\ call \in { [fn |-> "format_duration", d |-> d] : d \in Durations } \cup
                { [fn |-> "format_agenda_entry", mode |-> m, entry |-> e,
                   when |-> now] : m \in Modes, e \in FormatEntries }
    /\ ret = [fn |-> "none"]

CallFormatDuration ==
    /\ pc = "call"
    /\ call.fn = "format_duration"
    /\ ret' = format_duration(call.d)
    /\ pc' = "returned"
    /\ UNCHANGED <<calendar, mode, now, clock, localOffset, flattened, sorted,
                   kept, selected, output, call>>

CallFormatAgendaEntry ==
    /\ pc = "call"
    /\ call.fn = "format_agenda_entry"
    /\ ret' = format_agenda_entry(call.mode, call.entry, call.when)
    /\ pc' = "returned"
    /\ UNCHANGED <<calendar, mode, now, clock, localOffset, flattened, sorted,
                   kept, selected, output, call>>

NextFormat == CallFormatDuration \/ CallFormatAgendaEntry

SpecFormat == InitFormat /\ [][NextFormat]_vars

---------------------------------------------------------------------------
(* Properties *)

Range(s) == {s[i] : i \in DOMAIN s}
Count(x, s) == Cardinality({i \in DOMAIN s : s[i] = x})
Ascending(s) == \A i, j \in DOMAIN s : i < j => s[i].start <= s[j].start
SamePopulation(a, b) ==
    \A x \in Range(a) \cup Range(b) : Count(x, a) = Count(x, b)

\* The relevance rule as the specification words it, on exact spans.
StillRelevant(item, t) ==
    /\ item.start + item.duration >= t
    /\ t - item.start < RELEVANCE_HOURS * Hour

Qualifying(s, t) == LET Keep(item) == StillRelevant(item, t) IN SelectSeq(s, Keep)

\* C1: the rendered occurrences are at most 2, ascending by start, and are
\* the earliest qualifying occurrences: as many as qualify up to two, each
\* one a qualifying occurrence, and no qualifying occurrence left out
\* starts before a rendered one.
C1_FirstTwoByStart ==
    pc = "done" =>
        LET q == Qualifying(flattened, now)
        IN  /\ Len(selected) <= 2
            /\ Len(selected) = Min(2, Len(q))
            /\ Ascending(selected)
            /\ \A x \in Range(selected) : Count(x, selected) <= Count(x, q)
            /\ \A x \in Range(q) :
                   Count(x, selected) < Count(x, q) =>
                       \A j \in DOMAIN selected : selected[j].start <= x.start
            /\ output = Render(mode, selected, now)

C1_Witness ==
    /\ pc = "done"
    /\ Len(kept) >= 3
    /\ Len(selected) = 2
    /\ selected[1].start < selected[2].start
    /\ Len(flattened) > Len(kept)

\* C2: the filter keeps an occurrence iff (start + duration) >= now and
\* (now - start) < 24h; what it keeps stays in sorted order.
C2_RelevanceFilter ==
    pc = "done" => kept = Qualifying(sorted, now)

C2_Witness ==
    /\ pc = "done"
    /\ \E i \in DOMAIN sorted :
           /\ sorted[i].start + sorted[i].duration >= now
           /\ now - sorted[i].start = RELEVANCE_HOURS * Hour
           /\ sorted[i] \notin Range(kept)
    /\ \E i \in DOMAIN sorted :
           /\ sorted[i].start + sorted[i].duration = now - 1
           /\ sorted[i] \notin Range(kept)
    /\ \E i \in DOMAIN kept : kept[i].start > now

\* An entry whose extraction fails, told from its properties alone.
ZoneResolves(v) ==
    v.kind = "WithTimezone" => v.tzid \in KnownZones /\ ~NoSingleOffset(v.tzid, v.t)

FailsExtraction(e) ==
    \/ ~e.start.some
    \/ ~e.end.some
    \/ ~ZoneResolves(e.start.v)
    \/ ~ZoneResolves(e.end.v)
    \/ (e.rrule.some /\ ~ParseRRule(e.rrule.v).ok)

WithoutFailing(cal) == LET Keep(e) == ~FailsExtraction(e) IN SelectSeq(cal, Keep)

Outputs(cal) ==
    {r.output : r \in process_calendar(cal, mode, now, clock, localOffset)}

\* C3: entries whose extraction fails contribute no occurrence and do not
\* stop the run: the occurrences and the string are those of the calendar
\* without these entries.
C3_FailedEntriesSkipped ==
    pc = "done" =>
        /\ output \in Outputs(WithoutFailing(calendar))
        /\ Outputs(calendar) = Outputs(WithoutFailing(calendar))
        /\ \A r \in process_calendar(WithoutFailing(calendar), mode, now,
                                     clock, localOffset) :
               r.flattened = flattened

C3_Witness ==
    /\ pc = "done"
    /\ \E i, j, k \in DOMAIN calendar :
           /\ i < j /\ j < k
           /\ ~calendar[i].end.some
           /\ ~FailsExtraction(calendar[j])
           /\ calendar[j].ctype = "Event"
           /\ calendar[k].rrule.some /\ FailsExtraction(calendar[k])
    /\ Len(selected) = 1

\* Insertion sort by start that leaves equal starts in their given order.
RECURSIVE InsertByStart(_, _)
InsertByStart(x, s) ==
    IF s = <<>> THEN <<x>>
    ELSE IF s[Len(s)].start <= x.start THEN Append(s, x)
    ELSE Append(InsertByStart(x, SubSeq(s, 1, Len(s) - 1)), s[Len(s)])

RECURSIVE StableSort(_)
StableSort(s) ==
    IF s = <<>> THEN <<>>
    ELSE InsertByStart(s[Len(s)], StableSort(SubSeq(s, 1, Len(s) - 1)))

\* C9 as stated: the sort leaves occurrences of equal start in document
\* order, so the two displayed are the first in the document.
C9_TiesKeepDocumentOrder ==
    pc = "done" =>
        /\ sorted = StableSort(flattened)
        /\ selected = Take(Qualifying(StableSort(flattened), now), 2)

\* C9, amended: the sorted sequence holds the same occurrences as the
\* flattened one, ascending by start; it is the document-order one when no
\* two occurrences start together, and nothing more is promised of ties.
C9_SortedByStartOnly ==
    pc = "done" =>
        /\ SamePopulation(sorted, flattened)
        /\ Len(sorted) = Len(flattened)
        /\ Ascending(sorted)
        /\ (\A i, j \in DOMAIN flattened :
                i # j => flattened[i].start # flattened[j].start)
               => sorted = StableSort(flattened)

C9_Witness ==
    /\ pc = "done"
    /\ Len(kept) = 3
    /\ \A i \in DOMAIN kept : kept[i].start = kept[1].start
    /\ selected # Take(Qualifying(StableSort(flattened), now), 2)

---------------------------------------------------------------------------
(* Properties of extract_event *)

Returned(fn) == pc = "returned" /\ call.fn = fn

\* C4 as stated: no start gives MissingStartTime; a start and no end gives
\* MissingEndTime whatever the start's form or zone.
C4_MissingEndWhateverStart ==
    Returned("extract_event") =>
        /\ ~call.event.start.some => ~ret.ok /\ ret.err = "MissingStartTime"
        /\ call.event.start.some /\ ~call.event.end.some
               => ~ret.ok /\ ret.err = "MissingEndTime"

\* C4, amended: no start gives MissingStartTime; a start that does not
\* resolve (unknown zone, or no single local time) gives InvalidTimezone,
\* end or no end; a start that resolves and no end gives MissingEndTime.
C4_MissingTimes ==
    Returned("extract_event") =>
        /\ ~call.event.start.some => ~ret.ok /\ ret.err = "MissingStartTime"
        /\ call.event.start.some /\ ~ZoneResolves(call.event.start.v)
               => ~ret.ok /\ ret.err = "InvalidTimezone"
        /\ call.event.start.some /\ ZoneResolves(call.event.start.v)
             /\ ~call.event.end.some
               => ~ret.ok /\ ret.err = "MissingEndTime"

C4_Witness ==
    /\ Returned("extract_event")
    /\ call.event.start.some
    /\ call.event.start.v.kind = "WithTimezone"
    /\ ZoneResolves(call.event.start.v)
    /\ ~call.event.end.some
    /\ call.event.rrule.some
    /\ ret.err = "MissingEndTime"

W0 == now - HOURS_BEHIND * Hour
W1 == now + HOURS_AHEAD * Hour

SharesNameAndDuration(items) ==
    LET single == extract_event([call.event EXCEPT !.rrule = NoText],
                                W0, W1, clock, localOffset).v[1]
    IN  \A i \in DOMAIN items :
            /\ items[i].name = single.name
            /\ items[i].duration = single.duration

C10_DurationNonNegative ==
    Returned("extract_event") /\ ret.ok =>
        \A i \in DOMAIN ret.v :
            /\ ret.v[i].duration >= 0
            /\ call.event.end.v.kind = "Date" /\ ~call.event.rrule.some
                   => ret.v[i].duration = end_of_day(ret.v[i].start) - ret.v[i].start
            /\ call.event.end.v.kind # "Date" /\ ~call.event.rrule.some
                   => ret.v[i].start + ret.v[i].duration
                          = as_naive(call.event.end.v, localOffset).v

---------------------------------------------------------------------------
(* Properties of the formatter *)

DefaultAgo(e, w) ==
    e.name \o " " \o FormatHM(e.start) \o " ("
        \o format_duration(Abs(w - e.start)) \o " ago)"
DefaultIn(e, w) ==
    e.name \o " " \o FormatHM(e.start) \o " (in "
        \o format_duration(Abs(w - e.start)) \o ")"

DefaultCall == Returned("format_agenda_entry") /\ call.mode = "Default"

C6_DecimalHours ==
    /\ Returned("format_duration") /\ call.d = Hour + 30 * Minute => ret = "1.5h"
    /\ Returned("format_agenda_entry") /\ call.mode = "Compact"
         /\ call.entry = AgendaEntry("Ongoing Event", call.when - 45 * Minute, 2 * Hour)
           => ret = "Ongoing Event · 45min/1.25h"

===========================================================================
